---- MODULE Spec2Model ----
(***************************************************************************)
(* State-machine model of the sliding-boat puzzle of quasiboats.py: the    *)
(* Boat class (get_cells, can_move_to, _is_pos_free), the seeded puzzle    *)
(* generator (new_game), the bounded breadth-first solvability search      *)
(* (is_solvable, _check_collision_static) and the event handlers of the    *)
(* QuasiBoats activity that read or change the puzzle state.               *)
(***************************************************************************)
EXTENDS Integers, Sequences, FiniteSets, TLC

\* ------------------------------------------------------------------------
\* Program constants (class QuasiBoats and literals in its methods)
\* ------------------------------------------------------------------------
MIN_GRID_SIZE == 4

MAX_GRID_SIZE == 10

DEFAULT_GRID_SIZE == 6

max_gen_attempts == 5

max_attempts == 200

max_states == 500

\* ------------------------------------------------------------------------
\* Bounds of the model
\* ------------------------------------------------------------------------
\* Seeds are drawn from 1..MaxSeed (the program draws from 1..999999).
MaxSeed == 2

\* Largest grid size the player is let to select in the menu or to find
\* stored in the preferences at start-up.
MaxGrid == 6

\* Accepted moves are explored while move_count is below this bound.
MaxMoves == 1

\* Drags started in one game are explored up to this bound.
MaxDrags == 1

\* None of Python, for row/col fields and object references.
None == 0 - 1

\* ------------------------------------------------------------------------
\* The pseudo-random stream (module random): one integer of hidden state,
\* fixed by seed(), advanced by every draw. The generator of the library is
\* stood in for by a linear congruential one: seed() scrambles the seed into
\* the 16-bit state, a draw advances the state and reads its high bits.
\* ------------------------------------------------------------------------
rng_seed(seed) == (1334 * seed) % 65536

rng_next(s) == (25173 * s + 13849) % 65536

\* random.randint(lo, hi): a value of lo..hi and the advanced stream.
randint(s, lo, hi) ==
    LET s2 == rng_next(s)
    IN  [val |-> lo + ((s2 \div 256) % (hi - lo + 1)), rng |-> s2]

\* random.choice(seq): an element of seq and the advanced stream.
choice(s, seq) ==
    LET d == randint(s, 1, Len(seq))
    IN  [val |-> seq[d.val], rng |-> d.rng]

Max(a, b) == IF a >= b THEN a ELSE b

\* The element of a one-element set. A value a loop hands on from one pass
\* to the next is bound as the element of such a set, so that it is computed
\* once however often the next pass reads it.
Only(S) == CHOOSE x \in S : TRUE

Min(a, b) == IF a <= b THEN a ELSE b

\* ------------------------------------------------------------------------
\* class Boat
\* ------------------------------------------------------------------------
Boat(row, col, length, is_horizontal, is_player) ==
    [row |-> row, col |-> col, length |-> length,
     is_horizontal |-> is_horizontal, is_player |-> is_player,
     drag_start_row |-> None, drag_start_col |-> None]

\* The cells a boat of this shape covers when its top-left cell is (row, col).
cells_at(b, row, col) ==
    IF b.is_horizontal
    THEN {<<row, col + i>> : i \in 0..(b.length - 1)}
    ELSE {<<row + i, col>> : i \in 0..(b.length - 1)}

get_cells(b) == cells_at(b, b.row, b.col)

\* Seeded fault: only the first cell of the moved boat is tested.
_is_pos_free_head(all_boats, i, row, col) ==
    \A j \in 1..Len(all_boats) :
        j = i \/ <<row, col>> \notin get_cells(all_boats[j])

\* Boat._is_pos_free: boat i of all_boats can be at (row, col) without
\* overlapping any other boat of all_boats.
_is_pos_free(all_boats, i, row, col) ==
    \A j \in 1..Len(all_boats) :
        j = i \/ get_cells(all_boats[j]) \cap cells_at(all_boats[i], row, col) = {}

\* The path walk of can_move_to: curr is stepped towards target and the
\* position is tested after every step.
RECURSIVE walk_path(_, _, _, _, _)
walk_path(all_boats, i, curr, target, step) ==
    IF curr = target THEN TRUE
    ELSE LET nxt == curr + step
             b == all_boats[i]
             free == IF b.is_horizontal
                     THEN _is_pos_free(all_boats, i, b.row, nxt)
                     ELSE _is_pos_free(all_boats, i, nxt, b.col)
         IN  IF ~free THEN FALSE
             ELSE walk_path(all_boats, i, nxt, target, step)

\* Seeded fault: only the destination is tested, not the path to it.
can_move_to_dest_only(all_boats, i, new_row, new_col, size) ==
    LET b == all_boats[i]
    IN  IF new_row < 0 \/ new_col < 0 THEN FALSE
        ELSE IF b.is_horizontal /\ (new_col + b.length > size \/ new_row >= size)
        THEN FALSE
        ELSE IF ~b.is_horizontal /\ (new_row + b.length > size \/ new_col >= size)
        THEN FALSE
        ELSE IF b.is_horizontal
        THEN _is_pos_free(all_boats, i, b.row, new_col)
        ELSE _is_pos_free(all_boats, i, new_row, b.col)

\* Seeded fault: the test of the far edge of the grid is left out.
can_move_to_no_far_edge(all_boats, i, new_row, new_col, size) ==
    LET b == all_boats[i]
    IN  IF new_row < 0 \/ new_col < 0 THEN FALSE
        ELSE IF b.is_horizontal
        THEN walk_path(all_boats, i, b.col, new_col,
                       IF new_col > b.col THEN 1 ELSE 0 - 1)
        ELSE walk_path(all_boats, i, b.row, new_row,
                       IF new_row > b.row THEN 1 ELSE 0 - 1)

\* Boat.can_move_to(new_row, new_col, grid_size, all_boats) for boat i.
can_move_to(all_boats, i, new_row, new_col, size) ==
    LET b == all_boats[i]
    IN  IF new_row < 0 \/ new_col < 0 THEN FALSE
        ELSE IF b.is_horizontal /\ (new_col + b.length > size \/ new_row >= size)
        THEN FALSE
        ELSE IF ~b.is_horizontal /\ (new_row + b.length > size \/ new_col >= size)
        THEN FALSE
        ELSE IF b.is_horizontal
        THEN walk_path(all_boats, i, b.col, new_col,
                       IF new_col > b.col THEN 1 ELSE 0 - 1)
        ELSE walk_path(all_boats, i, b.row, new_row,
                       IF new_row > b.row THEN 1 ELSE 0 - 1)

\* ------------------------------------------------------------------------
\* QuasiBoats.is_solvable and QuasiBoats._check_collision_static
\* ------------------------------------------------------------------------
\* Seeded fault: boats of different orientation are never found to cross.
_check_collision_static_parallel_only(boat_idx, new_val, state, bs, size) ==
    LET b == bs[boat_idx]
        length == b.length
        is_h == b.is_horizontal
        r1 == IF is_h THEN b.row ELSE new_val
        c1 == IF is_h THEN new_val ELSE b.col
        hit(j) ==
            LET bj == bs[j]
                vj == state[j]
                is_hj == bj.is_horizontal
                r2 == IF is_hj THEN bj.row ELSE vj
                c2 == IF is_hj THEN vj ELSE bj.col
                l2 == bj.length
            IN  /\ is_h = is_hj
                /\ (IF is_h THEN r1 = r2 ELSE c1 = c2)
                /\ LET start1 == IF is_h THEN c1 ELSE r1
                       start2 == IF is_hj THEN c2 ELSE r2
                   IN  start1 < start2 + l2 /\ start2 < start1 + length
    IN  IF new_val < 0 \/ new_val + length > size THEN TRUE
        ELSE \E j \in 1..Len(bs) : j # boat_idx /\ hit(j)

\* Seeded fault: a boat is stopped one cell short of the far edge.
_check_collision_static_edge_short(boat_idx, new_val, state, bs, size) ==
    LET b == bs[boat_idx]
        length == b.length
        is_h == b.is_horizontal
        r1 == IF is_h THEN b.row ELSE new_val
        c1 == IF is_h THEN new_val ELSE b.col
        hit(j) ==
            LET bj == bs[j]
                vj == state[j]
                is_hj == bj.is_horizontal
                r2 == IF is_hj THEN bj.row ELSE vj
                c2 == IF is_hj THEN vj ELSE bj.col
                l2 == bj.length
            IN  IF is_h = is_hj
                THEN /\ (IF is_h THEN r1 = r2 ELSE c1 = c2)
                     /\ LET start1 == IF is_h THEN c1 ELSE r1
                            start2 == IF is_hj THEN c2 ELSE r2
                        IN  start1 < start2 + l2 /\ start2 < start1 + length
                ELSE LET rh == IF is_h THEN r1 ELSE r2
                         ch == IF is_h THEN c1 ELSE c2
                         lh == IF is_h THEN length ELSE l2
                         rv == IF ~is_hj THEN r2 ELSE r1
                         cv == IF ~is_hj THEN c2 ELSE c1
                         lv == IF ~is_hj THEN l2 ELSE length
                     IN  rv <= rh /\ rh < rv + lv /\ ch <= cv /\ cv < ch + lh
    IN  IF new_val < 0 \/ new_val + length >= size THEN TRUE
        ELSE \E j \in 1..Len(bs) : j # boat_idx /\ hit(j)

_check_collision_static(boat_idx, new_val, state, bs, size) ==
    LET b == bs[boat_idx]
        length == b.length
        is_h == b.is_horizontal
        r1 == IF is_h THEN b.row ELSE new_val
        c1 == IF is_h THEN new_val ELSE b.col
        hit(j) ==
            LET bj == bs[j]
                vj == state[j]
                is_hj == bj.is_horizontal
                r2 == IF is_hj THEN bj.row ELSE vj
                c2 == IF is_hj THEN vj ELSE bj.col
                l2 == bj.length
            IN  IF is_h = is_hj
                THEN /\ (IF is_h THEN r1 = r2 ELSE c1 = c2)
                     /\ LET start1 == IF is_h THEN c1 ELSE r1
                            start2 == IF is_hj THEN c2 ELSE r2
                        IN  start1 < start2 + l2 /\ start2 < start1 + length
                ELSE LET rh == IF is_h THEN r1 ELSE r2
                         ch == IF is_h THEN c1 ELSE c2
                         lh == IF is_h THEN length ELSE l2
                         rv == IF ~is_hj THEN r2 ELSE r1
                         cv == IF ~is_hj THEN c2 ELSE c1
                         lv == IF ~is_hj THEN l2 ELSE length
                     IN  rv <= rh /\ rh < rv + lv /\ ch <= cv /\ cv < ch + lh
    IN  IF new_val < 0 \/ new_val + length > size THEN TRUE
        ELSE \E j \in 1..Len(bs) : j # boat_idx /\ hit(j)

\* The two inner loops of is_solvable on one popped state: k counts the
\* pairs (i, step) in the order i = 0.., step = -1, +1.
RECURSIVE expand_state(_, _, _, _, _, _)
expand_state(k, state, queue, visited, bs, size) ==
    IF k >= 2 * Len(bs) THEN [queue |-> queue, visited |-> visited]
    ELSE LET i == (k \div 2) + 1
             step == IF k % 2 = 0 THEN 0 - 1 ELSE 1
             new_val == state[i] + step
             new_state == [state EXCEPT ![i] = new_val]
         IN  IF ~_check_collision_static(i, new_val, state, bs, size)
                /\ new_state \notin visited
             THEN Only({expand_state(k1, state, q, v, bs, size) :
                           k1 \in {k + 1}, q \in {Append(queue, new_state)},
                           v \in {visited \cup {new_state}}})
             ELSE Only({expand_state(k1, state, queue, visited, bs, size) :
                           k1 \in {k + 1}})

\* The state of the while loop of is_solvable: the queue, the position
\* head in it, the visited set, whether a goal state was popped, and the
\* largest size the visited set has had.
search_start(bs) ==
    LET start_state == [i \in 1..Len(bs) |->
                           IF bs[i].is_horizontal THEN bs[i].col ELSE bs[i].row]
    IN  [head |-> 0, queue |-> <<start_state>>, visited |-> {start_state},
         found |-> FALSE, most |-> 1]

\* Seeded fault: the cap is put on the states popped, not on those visited.
search_done_cap_on_head(st) ==
    st.found \/ ~(st.head < Len(st.queue) /\ st.head < max_states)

\* The loop is left by "return True" or when its condition fails.
search_done(st) ==
    st.found \/ ~(st.head < Len(st.queue) /\ Cardinality(st.visited) < max_states)

\* Seeded fault: the goal column is not reduced by the player's length.
search_step_far_goal(st, bs, size) ==
    LET state == st.queue[st.head + 1]
    IN  IF state[1] >= size
        THEN [st EXCEPT !.head = st.head + 1, !.found = TRUE]
        ELSE Only({[head |-> st.head + 1, queue |-> e.queue,
                    visited |-> e.visited, found |-> FALSE,
                    most |-> Max(st.most, Cardinality(e.visited))] :
                      e \in {expand_state(0, state, st.queue, st.visited,
                                           bs, size)}})

\* Seeded fault: head is not advanced, the same state is popped again.
search_step_head_kept(st, bs, size) ==
    LET state == st.queue[st.head + 1]
    IN  IF state[1] >= size - bs[1].length
        THEN [st EXCEPT !.found = TRUE]
        ELSE Only({[head |-> st.head, queue |-> e.queue,
                    visited |-> e.visited, found |-> FALSE,
                    most |-> Max(st.most, Cardinality(e.visited))] :
                      e \in {expand_state(0, state, st.queue, st.visited,
                                           bs, size)}})

\* One pass of the while loop body.
search_step(st, bs, size) ==
    LET state == st.queue[st.head + 1]
    IN  IF state[1] >= size - bs[1].length
        THEN [st EXCEPT !.head = st.head + 1, !.found = TRUE]
        ELSE Only({[head |-> st.head + 1, queue |-> e.queue,
                    visited |-> e.visited, found |-> FALSE,
                    most |-> Max(st.most, Cardinality(e.visited))] :
                      e \in {expand_state(0, state, st.queue, st.visited,
                                           bs, size)}})

\* The while loop, run in blocks of passes so that the evaluation stays
\* shallow: search_block runs at most k passes.
RECURSIVE search_block(_, _, _, _)
search_block(st, k, bs, size) ==
    IF k = 0 \/ search_done(st) THEN st
    ELSE Only({search_block(nxt, k1, bs, size) :
                  nxt \in {search_step(st, bs, size)}, k1 \in {k - 1}})

RECURSIVE search_loop(_, _, _)
search_loop(st, bs, size) ==
    IF search_done(st) THEN st
    ELSE Only({search_loop(nxt, bs, size) :
                  nxt \in {search_block(st, 24, bs, size)}})

\* is_solvable(boats, grid_size, exit_row); exit_row is not read.
solve(bs, size) ==
    Only({search_loop(st, bs, size) : st \in {search_start(bs)}})

is_solvable(bs, size) == solve(bs, size).found

\* ------------------------------------------------------------------------
\* QuasiBoats.new_game: the generator
\* ------------------------------------------------------------------------
num_obstacles(size) == Min(size + 1, 10)

\* One pass of the placement loop body: the draws of one candidate yacht.
draw_yacht(s, size) ==
    LET dl == choice(s, <<2, 3>>)
        dh == choice(dl.rng, <<TRUE, FALSE>>)
        dc == choice(dh.rng, <<"white">>)
        d1 == IF dh.val THEN randint(dc.rng, 0, size - dl.val)
                        ELSE randint(dc.rng, 0, size - 1)
        d2 == IF dh.val THEN randint(d1.rng, 0, size - 1)
                        ELSE randint(d1.rng, 0, size - dl.val)
    IN  [boat |-> Boat(d2.val, d1.val, dl.val, dh.val, FALSE), rng |-> d2.rng]

\* Seeded fault: only the first cell of the new yacht is tested.
overlaps_head(new_boat, bs) ==
    \E j \in 1..Len(bs) : <<new_boat.row, new_boat.col>> \in get_cells(bs[j])

overlaps(new_boat, bs) ==
    \E j \in 1..Len(bs) : get_cells(new_boat) \cap get_cells(bs[j]) # {}

\* The state of the while loop that places the obstacle yachts.
place_done(p, size) ==
    ~(Len(p.boats) < num_obstacles(size) /\ p.attempts < max_attempts)

\* One pass of the while loop body.
place_step(p, size) ==
    Only({[boats |-> IF ~overlaps(d.boat, p.boats)
                     THEN Append(p.boats, d.boat) ELSE p.boats,
           rng |-> d.rng, attempts |-> p.attempts + 1] :
             d \in {draw_yacht(p.rng, size)}})

\* The while loop, run in blocks of at most k passes.
RECURSIVE place_block(_, _, _)
place_block(p, k, size) ==
    IF k = 0 \/ place_done(p, size) THEN p
    ELSE Only({place_block(nxt, k1, size) :
                  nxt \in {place_step(p, size)}, k1 \in {k - 1}})

RECURSIVE place_yachts(_, _)
place_yachts(p, size) ==
    IF place_done(p, size) THEN p
    ELSE Only({place_yachts(nxt, size) : nxt \in {place_block(p, 16, size)}})

\* Seeded fault: the player boat is put on the top row, not the exit row.
candidate_top_row(s, size) ==
    Only({place_yachts(p, size) :
             p \in {[boats |-> <<Boat(0, dp.val, 2, TRUE, TRUE)>>,
                     rng |-> dp.rng, attempts |-> 0] :
                        dp \in {randint(s, 0, Max(0, size - 2))}}})

\* Seeded fault: the player's column is drawn from all columns of the grid.
place_start_any_col(s, size) ==
    LET exit == size \div 2
    IN  Only({[boats |-> <<Boat(exit, dp.val, 2, TRUE, TRUE)>>,
               rng |-> dp.rng, attempts |-> 0] :
                 dp \in {randint(s, 0, Max(0, size - 1))}})

\* The head of a pass of the for loop over gen_attempt: the list of boats
\* is emptied and the player boat drawn and put on the exit row.
place_start(s, size) ==
    LET exit == size \div 2
    IN  Only({[boats |-> <<Boat(exit, dp.val, 2, TRUE, TRUE)>>,
               rng |-> dp.rng, attempts |-> 0] :
                 dp \in {randint(s, 0, Max(0, size - 2))}})

\* One pass of the for loop over gen_attempt: a whole candidate layout.
candidate(s, size) ==
    Only({place_yachts(p, size) : p \in {place_start(s, size)}})

\* The k-th candidate layout drawn from the stream state s, every candidate
\* starting where the draws of the one before it ended.
RECURSIVE NthCandidate(_, _, _)
NthCandidate(k, s, size) ==
    IF k = 1 THEN candidate(s, size)
    ELSE NthCandidate(k - 1, candidate(s, size).rng, size)

\* Seeded fault: the first candidate is kept whatever is_solvable says.
gen_loop_keep_first(gen_attempt, s, size) ==
    Only({[boats |-> c.boats, rng |-> c.rng,
           solvable |-> is_solvable(c.boats, size),
           generated |-> gen_attempt + 1, attempts |-> c.attempts] :
             c \in {candidate(s, size)}})

\* The for loop over gen_attempt, leaving at the first solvable candidate.
RECURSIVE gen_loop(_, _, _)
gen_loop(gen_attempt, s, size) ==
    LET checked(c) ==
            Only({IF ok \/ gen_attempt = max_gen_attempts - 1
                  THEN [boats |-> c.boats, rng |-> c.rng, solvable |-> ok,
                        generated |-> gen_attempt + 1, attempts |-> c.attempts]
                  ELSE gen_loop(gen_attempt + 1, c.rng, size) :
                      ok \in {is_solvable(c.boats, size)}})
    IN  Only({checked(c) : c \in {candidate(s, size)}})

\* Seeded fault: the stream is not reseeded and goes on from where it was.
seed_stream_kept(prior, seed) == prior

\* random.seed(seed): the stream the generation draws from; what the
\* stream was before the call (prior) is discarded.
seed_stream(prior, seed) == rng_seed(seed)

\* The candidates generated from the stream state s for a grid size.
generate(s, size) == gen_loop(0, s, size)

\* generate for the streams the seeds 1..MaxSeed start and every grid size,
\* evaluated once.
Layouts ==
    {[rng |-> rng_seed(seed), size |-> size, gen |-> generate(rng_seed(seed), size)] :
        seed \in 1..MaxSeed, size \in MIN_GRID_SIZE..MAX_GRID_SIZE}

layout_for(s, size) ==
    IF \E e \in Layouts : e.rng = s /\ e.size = size
    THEN (CHOOSE e \in Layouts : e.rng = s /\ e.size = size).gen
    ELSE generate(s, size)


\* ------------------------------------------------------------------------
\* The state of a QuasiBoats activity
\* ------------------------------------------------------------------------
VARIABLES
    GRID_PIXEL_SIZE,\* self.GRID_PIXEL_SIZE
    grid_size,      \* self.grid_size
    exit_row,       \* self.exit_row
    cell_size,      \* self.cell_size
    boats,          \* self.boats: sequence of Boat records with img position
    selected_boat,  \* self.selected_boat: index into boats or None
    dragging_boat,  \* self.dragging_boat: index into boats or None
    move_count,     \* self.move_count
    game_won,       \* self.game_won
    current_seed,   \* self.current_seed
    move_locked,    \* self.move_locked
    menu_modal,     \* self.menu_modal is not None
    prefs,          \* the stored "grid_size" preference
    rng,            \* the state of module random's stream
    pointer,        \* the boat image the touch pointer holds, or None
    gen,            \* history: the outcome of the last generation
    drags,          \* history: the drags started in the current game
    ev,             \* history: the last event handled and what it did
    call,           \* a call of is_solvable or new_game run one loop pass
                    \* at a time: its position and its local variables
    attrs,          \* the boats, drag_dots and move_count attributes of the
                    \* class and of every instance: a list's address, a
                    \* number, or None where the instance has none of its own
    lists           \* the list objects, by address

vars == <<GRID_PIXEL_SIZE, grid_size, exit_row, cell_size, boats,
          selected_boat, dragging_boat, move_count, game_won, current_seed,
          move_locked, menu_modal, prefs, rng, pointer, gen, drags, ev, call,
          attrs, lists>>

\* The height of the screen as the class states it.
SCREEN_HEIGHT == 240

\* The heights the display may report at start-up: the one the class states
\* and a third of it, a screen on which two grid sizes get the same cell size.
ScreenHeights == {SCREEN_HEIGHT, SCREEN_HEIGHT \div 3}

\* calculate_cell_size
calculate_cell_size(size) == GRID_PIXEL_SIZE \div size

\* Python's round(x / cell) for x >= 0: to the nearest, halves to even.
round_div(x, cell) ==
    LET q == x \div cell
        r == x % cell
    IN  IF 2 * r < cell THEN q
        ELSE IF 2 * r > cell THEN q + 1
        ELSE IF q % 2 = 0 THEN q ELSE q + 1

\* create_boat_images: every boat gets an image at its cell's pixel position.
create_boat_images(bs, cell) ==
    [i \in 1..Len(bs) |->
        [row |-> bs[i].row, col |-> bs[i].col, length |-> bs[i].length,
         is_horizontal |-> bs[i].is_horizontal, is_player |-> bs[i].is_player,
         drag_start_row |-> bs[i].drag_start_row,
         drag_start_col |-> bs[i].drag_start_col,
         x |-> bs[i].col * cell, y |-> bs[i].row * cell]]

\* What new_game(seed) computes from the stream state, the grid size and the
\* cell size it finds; seed = None stands for a call without a seed. warned
\* is whether the warning of the last failed attempt was printed; result is
\* the value the call hands back to its caller: the method has no return
\* statement, so it is None on every path.
new_game(seed, prior_rng, size, cell) ==
    LET d == IF seed = None THEN randint(prior_rng, 1, MaxSeed)
             ELSE [val |-> seed, rng |-> prior_rng]
    IN  Only({[current_seed |-> d.val, rng |-> g.rng, exit_row |-> size \div 2,
               boats |-> create_boat_images(g.boats, cell),
               solvable |-> g.solvable, generated |-> g.generated,
               attempts |-> g.attempts,
               warned |-> (~g.solvable /\ g.generated = max_gen_attempts),
               result |-> "None"] :
                 g \in {layout_for(seed_stream(d.rng, d.val), size)}})

\* The last event: the handler that ran and the branch it took.
Event(op, branch) == [op |-> op, branch |-> branch]

\* No call is run pass by pass: the handlers run their calls in one step.
NoCall == [pc |-> "none"]

\* ------------------------------------------------------------------------
\* Attributes and list objects. The class statement binds boats and
\* drag_dots to one empty list each and move_count to 0; an instance reads
\* an attribute it has not assigned from the class. The activity the other
\* variables describe is followed on its own; several instances side by
\* side are followed in SpecShare.
\* ------------------------------------------------------------------------
\* The class QuasiBoats as an owner of attributes.
Class == 0

\* The instances created side by side.
Instances == {1, 2}

\* Addresses of list objects: two for the lists of the class, two for those
\* of every instance, and one to spare.
Addresses == 1..(2 * Cardinality(Instances) + 3)

\* The address kept for the list of an attribute of an owner. An address
\* only names a list object and cannot be observed by the program.
Home(o, name) == 2 * o + (IF name = "boats" THEN 1 ELSE 2)

\* The attributes after the class statement: no instance has any of its own.
ClassAttrs ==
    [o \in {Class} \cup Instances |->
        IF o = Class
        THEN [boats |-> Home(Class, "boats"),
              drag_dots |-> Home(Class, "drag_dots"), move_count |-> 0]
        ELSE [boats |-> None, drag_dots |-> None, move_count |-> None]]

\* The list objects after the class statement: all empty.
ClassLists == [a \in Addresses |-> <<>>]

\* The event of a handler that ended in new_game: the handler, and the
\* move count and the won flag of the game that the new one replaced.
Replaced(via) ==
    [op |-> via, branch |-> "new_game", moves |-> move_count, won |-> game_won]

\* The assignments of new_game, shared by every handler that ends in it.
\* The images of the old boats are deleted, so a held pointer is dropped.
ApplyNewGame(n, size, via) ==
    /\ boats' = n.boats
    /\ exit_row' = n.exit_row
    /\ current_seed' = n.current_seed
    /\ rng' = n.rng
    /\ selected_boat' = None
    /\ dragging_boat' = None
    /\ move_count' = 0
    /\ game_won' = FALSE
    /\ pointer' = None
    /\ drags' = 0
    /\ gen' = [seed |-> n.current_seed, size |-> size, boats |-> n.boats,
               solvable |-> n.solvable, generated |-> n.generated,
               warned |-> n.warned, result |-> n.result]
    /\ ev' = Replaced(via)

\* onCreate: the height of the display and the stored grid size are read,
\* the cell size computed and the first game generated with a seed drawn from
\* the unseeded stream.
InitWith(sizes, heights) ==
    \E size \in sizes, seed \in 1..MaxSeed, height \in heights :
        /\ GRID_PIXEL_SIZE = height - 10
        /\ \E n \in {new_game(seed, 0, size, calculate_cell_size(size))} :
            /\ grid_size = size
            /\ prefs = size
            /\ cell_size = calculate_cell_size(size)
            /\ boats = n.boats
            /\ exit_row = n.exit_row
            /\ current_seed = n.current_seed
            /\ rng = n.rng
            /\ selected_boat = None
            /\ dragging_boat = None
            /\ move_count = 0
            /\ game_won = FALSE
            /\ move_locked = FALSE
            /\ menu_modal = FALSE
            /\ pointer = None
            /\ drags = 0
            /\ gen = [seed |-> n.current_seed, size |-> size, boats |-> n.boats,
                      solvable |-> n.solvable, generated |-> n.generated,
                      warned |-> n.warned, result |-> n.result]
            /\ ev = Event("onCreate", "new_game")
            /\ call = NoCall
            /\ attrs = ClassAttrs
            /\ lists = ClassLists

\* The stored preference is the default or a size chosen earlier in the menu.
Init == InitWith({DEFAULT_GRID_SIZE} \cup MIN_GRID_SIZE..MaxGrid, {SCREEN_HEIGHT})

BoatIds == 1..Len(boats)

Directions == {"up", "down", "left", "right"}

\* Seeded fault: the player has to pass the last column to win.
win_condition_strict(b, exit, size) ==
    b.is_player /\ b.row = exit /\ b.col + b.length > size

\* The win test of move_selected_boat and on_boat_released.
win_condition(b, exit, size) ==
    b.is_player /\ b.row = exit /\ b.col + b.length >= size

\* ------------------------------------------------------------------------
\* Keyboard
\* ------------------------------------------------------------------------
\* on_boat_focused
on_boat_focused(b) ==
    /\ selected_boat # b
    /\ selected_boat' = b
    /\ ev' = Event("on_boat_focused", "done")
    /\ UNCHANGED <<GRID_PIXEL_SIZE, attrs, lists, call, grid_size, exit_row,
                   cell_size, boats, dragging_boat, move_count, game_won,
                   current_seed, move_locked, menu_modal, prefs, rng, pointer,
                   gen, drags>>

\* on_boat_key with ENTER: move_locked is toggled.
on_boat_key_enter ==
    /\ move_locked' = ~move_locked
    /\ ev' = Event("on_boat_key", "enter")
    /\ UNCHANGED <<GRID_PIXEL_SIZE, attrs, lists, call, grid_size, exit_row,
                   cell_size, boats, selected_boat, dragging_boat, move_count,
                   game_won, current_seed, menu_modal, prefs, rng, pointer,
                   gen, drags>>

\* The if/elif chain of move_selected_boat: whether the direction is along
\* the boat's axis (otherwise the final else returns), and the target.
key_on_axis(b, direction) ==
    \/ direction \in {"up", "down"} /\ ~b.is_horizontal
    \/ direction \in {"left", "right"} /\ b.is_horizontal

key_target(b, direction) ==
    IF direction = "up" /\ ~b.is_horizontal THEN <<b.row - 1, b.col>>
    ELSE IF direction = "down" /\ ~b.is_horizontal THEN <<b.row + 1, b.col>>
    ELSE IF direction = "left" /\ b.is_horizontal THEN <<b.row, b.col - 1>>
    ELSE IF direction = "right" /\ b.is_horizontal THEN <<b.row, b.col + 1>>
    ELSE <<b.row, b.col>>

\* Seeded fault: a key step is taken also in a game that is won.
move_selected_boat_after_win(direction) ==
    /\ move_locked
    /\ LET b == selected_boat
           t == key_target(boats[b], direction)
       IN  IF b = None \/ ~move_locked
           THEN /\ UNCHANGED <<boats, move_count, game_won>>
                /\ ev' = Event("move_selected_boat", "return")
           ELSE IF ~key_on_axis(boats[b], direction)
           THEN /\ UNCHANGED <<boats, move_count, game_won>>
                /\ ev' = Event("move_selected_boat", "off_axis")
           ELSE IF ~can_move_to(boats, b, t[1], t[2], grid_size)
           THEN /\ UNCHANGED <<boats, move_count, game_won>>
                /\ ev' = Event("move_selected_boat", "refused")
           ELSE /\ boats' = [boats EXCEPT ![b].row = t[1], ![b].col = t[2],
                                          ![b].x = t[2] * cell_size,
                                          ![b].y = t[1] * cell_size]
                /\ move_count' = move_count + 1
                /\ game_won' = (game_won
                                \/ win_condition(boats'[b], exit_row, grid_size))
                /\ ev' = Event("move_selected_boat", "moved")
    /\ UNCHANGED <<GRID_PIXEL_SIZE, attrs, lists, call, grid_size, exit_row,
                   cell_size, selected_boat, dragging_boat, current_seed,
                   move_locked, menu_modal, prefs, rng, pointer, gen, drags>>

\* move_selected_boat(direction), reached from on_boat_key's arrow keys
\* while move_locked.
move_selected_boat(direction) ==
    /\ move_locked
    /\ LET b == selected_boat
           t == key_target(boats[b], direction)
       IN  IF b = None \/ game_won \/ ~move_locked
           THEN /\ UNCHANGED <<boats, move_count, game_won>>
                /\ ev' = Event("move_selected_boat", "return")
           ELSE IF ~key_on_axis(boats[b], direction)
           THEN /\ UNCHANGED <<boats, move_count, game_won>>
                /\ ev' = Event("move_selected_boat", "off_axis")
           ELSE IF ~can_move_to(boats, b, t[1], t[2], grid_size)
           THEN /\ UNCHANGED <<boats, move_count, game_won>>
                /\ ev' = Event("move_selected_boat", "refused")
           ELSE /\ boats' = [boats EXCEPT ![b].row = t[1], ![b].col = t[2],
                                          ![b].x = t[2] * cell_size,
                                          ![b].y = t[1] * cell_size]
                /\ move_count' = move_count + 1
                /\ game_won' = win_condition(boats'[b], exit_row, grid_size)
                /\ ev' = Event("move_selected_boat", "moved")
    /\ UNCHANGED <<GRID_PIXEL_SIZE, attrs, lists, call, grid_size, exit_row,
                   cell_size, selected_boat, dragging_boat, current_seed,
                   move_locked, menu_modal, prefs, rng, pointer, gen, drags>>

\* update_frame: with no key held on the keypad, move_locked is dropped.
update_frame ==
    /\ move_locked
    /\ move_locked' = FALSE
    /\ ev' = Event("update_frame", "done")
    /\ UNCHANGED <<GRID_PIXEL_SIZE, attrs, lists, call, grid_size, exit_row,
                   cell_size, boats, selected_boat, dragging_boat, move_count,
                   game_won, current_seed, menu_modal, prefs, rng, pointer,
                   gen, drags>>

\* ------------------------------------------------------------------------
\* Touch
\* ------------------------------------------------------------------------
\* on_boat_pressed: the pointer goes down on a boat image.
on_boat_pressed(b) ==
    /\ pointer = None
    /\ drags' = drags + 1
    /\ pointer' = b
    /\ IF game_won
       THEN /\ UNCHANGED <<selected_boat, dragging_boat, boats>>
            /\ ev' = Event("on_boat_pressed", "return")
       ELSE /\ selected_boat' = b
            /\ dragging_boat' = b
            /\ boats' = [boats EXCEPT ![b].drag_start_row = boats[b].row,
                                      ![b].drag_start_col = boats[b].col]
            /\ ev' = Event("on_boat_pressed", "started")
    /\ UNCHANGED <<GRID_PIXEL_SIZE, attrs, lists, call, grid_size, exit_row,
                   cell_size, move_count, game_won, current_seed, move_locked,
                   menu_modal, prefs, rng, gen>>

\* Seeded fault: the touched cell is taken as it is, not locked to the axis.
pressing_target_unlocked(b, raw_row, raw_col, size) ==
    LET row2 == Max(0, Min(raw_row, size - 1))
        col2 == IF b.is_horizontal THEN Max(0, Min(raw_col, size - b.length))
                ELSE Max(0, Min(raw_col, size - 1))
    IN  <<row2, col2>>

\* The cell on_boat_pressing aims at for a touch in cell (raw_row, raw_col):
\* locked to the boat's axis, then clamped.
pressing_target(b, raw_row, raw_col, size) ==
    LET row1 == IF b.is_horizontal THEN b.row ELSE raw_row
        col1 == IF b.is_horizontal THEN raw_col ELSE b.col
        row2 == Max(0, Min(row1, size - 1))
        col2 == IF b.is_horizontal THEN Max(0, Min(col1, size - b.length))
                ELSE Max(0, Min(col1, size - 1))
    IN  <<row2, col2>>

\* on_boat_pressing: the held pointer is in cell (raw, raw) of the grid.
on_boat_pressing(b, raw) ==
    /\ pointer = b
    /\ IF dragging_boat = None \/ game_won \/ move_locked
       THEN /\ UNCHANGED boats
            /\ ev' = Event("on_boat_pressing", "return")
       ELSE LET t == pressing_target(boats[b], raw, raw, grid_size)
            IN  IF can_move_to(boats, b, t[1], t[2], grid_size)
                THEN /\ boats' = [boats EXCEPT ![b].row = t[1], ![b].col = t[2],
                                               ![b].x = t[2] * cell_size,
                                               ![b].y = t[1] * cell_size]
                     /\ ev' = Event("on_boat_pressing", "moved")
                ELSE /\ UNCHANGED boats
                     /\ ev' = Event("on_boat_pressing", "refused")
    /\ UNCHANGED <<GRID_PIXEL_SIZE, attrs, lists, call, grid_size, exit_row,
                   cell_size, selected_boat, dragging_boat, move_count,
                   game_won, current_seed, move_locked, menu_modal, prefs,
                   rng, pointer, gen, drags>>

\* on_boat_released: the pointer goes up.
on_boat_released(b) ==
    /\ pointer = b
    /\ pointer' = None
    /\ IF dragging_boat = None \/ game_won
       THEN /\ UNCHANGED <<boats, move_count, game_won, dragging_boat>>
            /\ ev' = Event("on_boat_released", "return")
       ELSE LET bt == boats[b]
                new_col == IF bt.is_horizontal
                           THEN round_div(bt.x, cell_size) ELSE bt.col
                new_row == IF bt.is_horizontal
                           THEN bt.row ELSE round_div(bt.y, cell_size)
                valid == can_move_to(boats, b, new_row, new_col, grid_size)
                moved == new_row # bt.drag_start_row \/ new_col # bt.drag_start_col
                end_row == IF valid THEN new_row ELSE bt.drag_start_row
                end_col == IF valid THEN new_col ELSE bt.drag_start_col
            IN  /\ boats' = [boats EXCEPT
                               ![b].row = IF valid /\ ~moved THEN bt.row ELSE end_row,
                               ![b].col = IF valid /\ ~moved THEN bt.col ELSE end_col,
                               ![b].x = end_col * cell_size,
                               ![b].y = end_row * cell_size]
                /\ move_count' = IF valid /\ moved THEN move_count + 1
                                 ELSE move_count
                /\ game_won' = (valid /\ moved
                                /\ win_condition(boats'[b], exit_row, grid_size))
                /\ dragging_boat' = None
                /\ ev' = Event("on_boat_released",
                               IF ~valid THEN "snapped_back"
                               ELSE IF moved THEN "counted" ELSE "not_moved")
    /\ UNCHANGED <<GRID_PIXEL_SIZE, attrs, lists, call, grid_size, exit_row,
                   cell_size, selected_boat, current_seed, move_locked,
                   menu_modal, prefs, rng, gen, drags>>

\* ------------------------------------------------------------------------
\* New game, reset and the menu
\* ------------------------------------------------------------------------
\* on_new_game from the New button or the N key.
on_new_game ==
    /\ ~menu_modal
    /\ \E n \in {new_game(None, rng, grid_size, cell_size)} :
           ApplyNewGame(n, grid_size, "on_new_game")
    /\ UNCHANGED <<GRID_PIXEL_SIZE, attrs, lists, call, grid_size, cell_size,
                   move_locked, menu_modal, prefs>>

\* Seeded fault: the reset draws a new seed, as on_new_game does.
on_reset_new_seed ==
    /\ ~menu_modal
    /\ \E n \in {new_game(None, rng, grid_size, cell_size)} :
           ApplyNewGame(n, grid_size, "on_reset")
    /\ UNCHANGED <<GRID_PIXEL_SIZE, attrs, lists, call, grid_size, cell_size,
                   move_locked, menu_modal, prefs>>

\* on_reset from the Reset button or the R key.
on_reset ==
    /\ ~menu_modal
    /\ \E n \in {new_game(current_seed, rng, grid_size, cell_size)} :
           ApplyNewGame(n, grid_size, "on_reset")
    /\ UNCHANGED <<GRID_PIXEL_SIZE, attrs, lists, call, grid_size, cell_size,
                   move_locked, menu_modal, prefs>>

\* show_menu
show_menu ==
    /\ ~menu_modal
    /\ menu_modal' = TRUE
    /\ ev' = Event("show_menu", "done")
    /\ UNCHANGED <<GRID_PIXEL_SIZE, attrs, lists, call, grid_size, exit_row,
                   cell_size, boats, selected_boat, dragging_boat, move_count,
                   game_won, current_seed, move_locked, prefs, rng, pointer,
                   gen, drags>>

\* Seeded fault: the new size is taken without the test of its range.
change_size_unchecked(delta) ==
    /\ menu_modal
    /\ grid_size' = grid_size + delta
    /\ prefs' = grid_size + delta
    /\ ev' = Event("change_size", "changed")
    /\ UNCHANGED <<GRID_PIXEL_SIZE, attrs, lists, call, exit_row, cell_size,
                   boats, selected_boat, dragging_boat, move_count, game_won,
                   current_seed, move_locked, menu_modal, rng, pointer, gen,
                   drags>>

\* change_size(delta) from the menu's minus and plus buttons.
change_size(delta) ==
    /\ menu_modal
    /\ LET new_size == grid_size + delta
       IN  IF MIN_GRID_SIZE <= new_size /\ new_size <= MAX_GRID_SIZE
           THEN /\ grid_size' = new_size
                /\ prefs' = new_size
                /\ ev' = Event("change_size", "changed")
           ELSE /\ UNCHANGED <<grid_size, prefs>>
                /\ ev' = Event("change_size", "kept")
    /\ UNCHANGED <<GRID_PIXEL_SIZE, attrs, lists, call, exit_row, cell_size,
                   boats, selected_boat, dragging_boat, move_count, game_won,
                   current_seed, move_locked, menu_modal, rng, pointer, gen,
                   drags>>

\* close_menu: the cell size is recomputed; if it changed, recreate_grid
\* runs, which ends in new_game().
close_menu ==
    /\ menu_modal
    /\ menu_modal' = FALSE
    /\ cell_size' = calculate_cell_size(grid_size)
    /\ IF cell_size # cell_size'
       THEN \E n \in {new_game(None, rng, grid_size, cell_size')} :
                ApplyNewGame(n, grid_size, "recreate_grid")
       ELSE /\ ev' = Event("close_menu", "closed")
            /\ UNCHANGED <<exit_row, boats, selected_boat, dragging_boat,
                           move_count, game_won, current_seed, rng, pointer,
                           gen, drags>>
    /\ UNCHANGED <<GRID_PIXEL_SIZE, attrs, lists, call, grid_size,
                   move_locked, prefs>>

\* The menu's New Game button: on_new_game(e), then close_menu().
menu_new_game ==
    /\ menu_modal
    /\ menu_modal' = FALSE
    /\ cell_size' = calculate_cell_size(grid_size)
    /\ \E first \in {new_game(None, rng, grid_size, cell_size)} :
           IF cell_size # cell_size'
           THEN \E n \in {new_game(None, first.rng, grid_size, cell_size')} :
                    ApplyNewGame(n, grid_size, "recreate_grid")
           ELSE ApplyNewGame(first, grid_size, "on_new_game")
    /\ UNCHANGED <<GRID_PIXEL_SIZE, attrs, lists, call, grid_size,
                   move_locked, prefs>>

\* The events of play are explored while the bounds allow, and reach the
\* boats only while the menu does not cover them; a drag that is under way
\* goes on under the menu. In a game that is won the handlers return at
\* once, and the events are explored whatever the move count is.
MayMove == game_won \/ move_count < MaxMoves

MayDrag == MayMove /\ drags < MaxDrags

Keyboard ==
    \/ \E b \in BoatIds : on_boat_focused(b)
    \/ on_boat_key_enter
    \/ \E d \in Directions : MayMove /\ move_selected_boat(d)
    \/ update_frame

Touch ==
    \/ \E b \in BoatIds : MayDrag /\ ~menu_modal /\ on_boat_pressed(b)
    \/ \E b \in BoatIds : \E raw \in (0 - 1)..grid_size : on_boat_pressing(b, raw)
    \/ \E b \in BoatIds : on_boat_released(b)

Menu ==
    \/ show_menu
    \/ \E delta \in {0 - 1, 1} : grid_size + delta <= MaxGrid /\ change_size(delta)
    \/ close_menu
    \/ menu_new_game

Next ==
    \/ ~menu_modal /\ Keyboard
    \/ Touch
    \/ on_new_game
    \/ on_reset
    \/ Menu

Spec == Init /\ [][Next]_vars

\* Play alone: the grid size stays as it was at start-up.
NextPlay ==
    \/ Keyboard
    \/ Touch
    \/ on_new_game
    \/ on_reset

SpecPlay == Init /\ [][NextPlay]_vars


\* The menu and the generator alone, over every grid size and both screens.
NextMenu ==
    \/ on_new_game
    \/ on_reset
    \/ show_menu
    \/ \E delta \in {0 - 1, 1} : change_size(delta)
    \/ close_menu
    \/ menu_new_game

SpecMenu ==
    InitWith(MIN_GRID_SIZE..MAX_GRID_SIZE, ScreenHeights) /\ [][NextMenu]_vars

\* ------------------------------------------------------------------------
\* Boat.can_move_to called on its own: arrangements of three boats on a grid
\* of ProbeGrid cells a side, and calls for boat 1 with any target from one
\* cell outside the grid to one cell outside on the other side.
\* ------------------------------------------------------------------------
ProbeGrid == 8

\* The boat with rows and columns exchanged.
Transposed(b) == Boat(b.col, b.row, b.length, ~b.is_horizontal, b.is_player)

\* The boat that is moved: along the top row, of either length.
Movers ==
    {Boat(0, c, l, TRUE, FALSE) : c \in 0..(ProbeGrid - 2), l \in {2, 3}}

\* A boat beside or across the mover's row.
Others ==
    {Boat(r, c, 2, TRUE, FALSE) : r \in {0, 1}, c \in 0..(ProbeGrid - 2)}
        \cup {Boat(r, c, 2, FALSE, FALSE) : r \in {0, 1}, c \in 0..(ProbeGrid - 1)}

\* A boat on the mover's row.
Collinear == {Boat(0, c, 2, TRUE, FALSE) : c \in 0..(ProbeGrid - 2)}

Arrangements ==
    LET flat == {<<m, o1, o2>> : m \in Movers, o1 \in Others, o2 \in Collinear}
        free(a) == /\ a[1].col + a[1].length <= ProbeGrid
                   /\ \A i \in 1..3 : \A j \in (i + 1)..3 :
                          get_cells(a[i]) \cap get_cells(a[j]) = {}
    IN  {a \in flat : free(a)}
            \cup {[i \in 1..3 |-> Transposed(a[i])] : a \in {x \in flat : free(x)}}

\* The last call of can_move_to: its arguments and what it returned.
CallEvent(i, new_row, new_col, result) ==
    [op |-> "can_move_to", branch |-> IF result THEN "True" ELSE "False",
     boat |-> i, new_row |-> new_row, new_col |-> new_col]

InitArranged ==
    \E a \in Arrangements :
        /\ GRID_PIXEL_SIZE = SCREEN_HEIGHT - 10
        /\ grid_size = ProbeGrid
        /\ prefs = ProbeGrid
        /\ cell_size = calculate_cell_size(ProbeGrid)
        /\ boats = create_boat_images(a, calculate_cell_size(ProbeGrid))
        /\ exit_row = ProbeGrid \div 2
        /\ current_seed = None
        /\ rng = 0
        /\ selected_boat = None
        /\ dragging_boat = None
        /\ move_count = 0
        /\ game_won = FALSE
        /\ move_locked = FALSE
        /\ menu_modal = FALSE
        /\ pointer = None
        /\ drags = 0
        /\ gen = [seed |-> None, size |-> ProbeGrid, boats |-> <<>>,
                  solvable |-> FALSE, generated |-> 0,
                  warned |-> FALSE, result |-> "None"]
        /\ ev = Event("arranged", "done")
        /\ call = NoCall
        /\ attrs = ClassAttrs
        /\ lists = ClassLists

\* boats[0].can_move_to(new_row, new_col, grid_size, boats), called once on
\* an arrangement; the call changes nothing.
call_can_move_to(new_row, new_col) ==
    /\ ev.op = "arranged"
    /\ ev' = CallEvent(1, new_row, new_col,
                       can_move_to(boats, 1, new_row, new_col, grid_size))
    /\ UNCHANGED <<GRID_PIXEL_SIZE, attrs, lists, call, grid_size, exit_row,
                   cell_size, boats, selected_boat, dragging_boat, move_count,
                   game_won, current_seed, move_locked, menu_modal, prefs,
                   rng, pointer, gen, drags>>

NextCan ==
    \E new_row \in (0 - 1)..ProbeGrid, new_col \in (0 - 1)..ProbeGrid :
        call_can_move_to(new_row, new_col)

SpecCan == InitArranged /\ [][NextCan]_vars

\* ------------------------------------------------------------------------
\* QuasiBoats.is_solvable called on its own and run one pass of its while
\* loop at a time, on the candidate layouts the generator draws and on
\* layouts of the player boat alone.
\* ------------------------------------------------------------------------
\* Largest grid on which every column of a lone player is tried.
MaxLone == 12

\* The candidates of every seed and grid size, kept or discarded.
DrawnLayouts ==
    {[boats |-> NthCandidate(k, rng_seed(seed), size).boats, size |-> size] :
        seed \in 1..MaxSeed, size \in MIN_GRID_SIZE..MAX_GRID_SIZE,
        k \in 1..max_gen_attempts}

\* The player boat alone: on the small grids in every column, on grids of
\* about max_states cells a side in the first, the middle and the last one.
LoneLayouts ==
    {[boats |-> <<Boat(size \div 2, col, 2, TRUE, TRUE)>>, size |-> size] :
        size \in 2..MaxLone, col \in 0..(MaxLone - 2)}
    \cup {[boats |-> <<Boat(size \div 2, col, 2, TRUE, TRUE)>>, size |-> size] :
              size \in (max_states - 1)..(max_states + 1),
              col \in {0, max_states \div 2, max_states - 3}}

SolveInputs ==
    DrawnLayouts \cup {l \in LoneLayouts : l.boats[1].col + 2 <= l.size}

\* The call is_solvable(boats, grid_size, exit_row) at the head of its
\* while loop; links is history: every state put into visited with the
\* popped state it was reached from.
InitSolve ==
    \E l \in SolveInputs :
        /\ GRID_PIXEL_SIZE = SCREEN_HEIGHT - 10
        /\ grid_size = l.size
        /\ prefs = l.size
        /\ cell_size = calculate_cell_size(l.size)
        /\ boats = create_boat_images(l.boats, calculate_cell_size(l.size))
        /\ exit_row = l.size \div 2
        /\ current_seed = None
        /\ rng = 0
        /\ selected_boat = None
        /\ dragging_boat = None
        /\ move_count = 0
        /\ game_won = FALSE
        /\ move_locked = FALSE
        /\ menu_modal = FALSE
        /\ pointer = None
        /\ drags = 0
        /\ gen = [seed |-> None, size |-> l.size, boats |-> <<>>,
                  solvable |-> FALSE, generated |-> 0,
                  warned |-> FALSE, result |-> "None"]
        /\ ev = Event("is_solvable", "called")
        /\ call = [pc |-> "solve", st |-> search_start(l.boats), links |-> {}]
        /\ attrs = ClassAttrs
        /\ lists = ClassLists

\* One pass of the while loop of is_solvable.
is_solvable_pass ==
    /\ call.pc = "solve"
    /\ ~search_done(call.st)
    /\ \E nxt \in {search_step(call.st, boats, grid_size)} :
           call' = [call EXCEPT
                       !.st = nxt,
                       !.links = @ \cup {<<s, call.st.queue[call.st.head + 1]>> :
                                            s \in nxt.visited \ call.st.visited}]
    /\ ev' = Event("is_solvable", "pass")
    /\ UNCHANGED <<GRID_PIXEL_SIZE, attrs, lists, grid_size, exit_row,
                   cell_size, boats, selected_boat, dragging_boat, move_count,
                   game_won, current_seed, move_locked, menu_modal, prefs,
                   rng, pointer, gen, drags>>

\* The loop is left: "return True" from inside it, "return False" after it.
is_solvable_return ==
    /\ call.pc = "solve"
    /\ search_done(call.st)
    /\ call' = [call EXCEPT !.pc = "returned"]
    /\ ev' = Event("is_solvable", IF call.st.found THEN "True" ELSE "False")
    /\ UNCHANGED <<GRID_PIXEL_SIZE, attrs, lists, grid_size, exit_row,
                   cell_size, boats, selected_boat, dragging_boat, move_count,
                   game_won, current_seed, move_locked, menu_modal, prefs,
                   rng, pointer, gen, drags>>

NextSolve ==
    \/ is_solvable_pass
    \/ is_solvable_return

SpecSolve == InitSolve /\ [][NextSolve]_vars

\* ------------------------------------------------------------------------
\* QuasiBoats.new_game run one loop pass at a time: the passes of the
\* placement loop, the call of is_solvable and the passes of its loop, and
\* the end of a pass of the for loop over gen_attempt.
\* ------------------------------------------------------------------------
\* new_game(seed) has seeded the stream and begun the first pass of the for
\* loop; generated and most_attempts are history: the candidates begun and
\* the largest value attempts has had.
InitGen ==
    \E seed \in 1..MaxSeed, size \in MIN_GRID_SIZE..MAX_GRID_SIZE :
        \E p \in {place_start(seed_stream(0, seed), size)} :
            /\ GRID_PIXEL_SIZE = SCREEN_HEIGHT - 10
            /\ grid_size = size
            /\ prefs = size
            /\ cell_size = calculate_cell_size(size)
            /\ boats = p.boats
            /\ exit_row = size \div 2
            /\ current_seed = seed
            /\ rng = p.rng
            /\ selected_boat = None
            /\ dragging_boat = None
            /\ move_count = 0
            /\ game_won = FALSE
            /\ move_locked = FALSE
            /\ menu_modal = FALSE
            /\ pointer = None
            /\ drags = 0
            /\ gen = [seed |-> None, size |-> size, boats |-> <<>>,
                      solvable |-> FALSE, generated |-> 0,
                      warned |-> FALSE, result |-> "None"]
            /\ ev = Event("new_game", "called")
            /\ call = [pc |-> "place", gen_attempt |-> 0, p |-> p,
                       st |-> search_start(p.boats), links |-> {},
                       generated |-> 1, most_attempts |-> 0]
            /\ attrs = ClassAttrs
            /\ lists = ClassLists

\* One pass of the while loop that places the yachts.
new_game_place_pass ==
    /\ call.pc = "place"
    /\ ~place_done(call.p, grid_size)
    /\ \E nxt \in {place_step(call.p, grid_size)} :
           /\ call' = [call EXCEPT !.p = nxt,
                                   !.most_attempts = Max(@, nxt.attempts)]
           /\ boats' = nxt.boats
           /\ rng' = nxt.rng
    /\ ev' = Event("new_game", "place")
    /\ UNCHANGED <<GRID_PIXEL_SIZE, attrs, lists, grid_size, exit_row,
                   cell_size, selected_boat, dragging_boat, move_count,
                   game_won, current_seed, move_locked, menu_modal, prefs,
                   pointer, gen, drags>>

\* The placement loop is left and is_solvable called on self.boats.
new_game_call_is_solvable ==
    /\ call.pc = "place"
    /\ place_done(call.p, grid_size)
    /\ call' = [call EXCEPT !.pc = "solve", !.st = search_start(boats),
                            !.links = {}]
    /\ ev' = Event("new_game", "is_solvable")
    /\ UNCHANGED <<GRID_PIXEL_SIZE, attrs, lists, grid_size, exit_row,
                   cell_size, boats, selected_boat, dragging_boat, move_count,
                   game_won, current_seed, move_locked, menu_modal, prefs,
                   rng, pointer, gen, drags>>

\* is_solvable has returned: break on True; otherwise the next pass of the
\* for loop, or after the last pass the warning. After the loop the counters
\* are reset and the boat images created.
new_game_checked ==
    /\ call.pc = "solve"
    /\ search_done(call.st)
    /\ IF call.st.found \/ call.gen_attempt = max_gen_attempts - 1
       THEN /\ call' = [call EXCEPT !.pc = "done"]
            /\ boats' = create_boat_images(boats, cell_size)
            /\ gen' = [seed |-> current_seed, size |-> grid_size,
                       boats |-> boats', solvable |-> call.st.found,
                       generated |-> call.gen_attempt + 1,
                       warned |-> ~call.st.found, result |-> "None"]
            /\ ev' = Event("new_game", "done")
            /\ UNCHANGED rng
       ELSE /\ \E p \in {place_start(rng, grid_size)} :
                   /\ call' = [call EXCEPT !.pc = "place",
                                           !.gen_attempt = @ + 1,
                                           !.p = p,
                                           !.generated = @ + 1]
                   /\ boats' = p.boats
                   /\ rng' = p.rng
            /\ ev' = Event("new_game", "retry")
            /\ UNCHANGED gen
    /\ UNCHANGED <<GRID_PIXEL_SIZE, attrs, lists, grid_size, exit_row,
                   cell_size, selected_boat, dragging_boat, move_count,
                   game_won, current_seed, move_locked, menu_modal, prefs,
                   pointer, drags>>

NextGen ==
    \/ new_game_place_pass
    \/ new_game_call_is_solvable
    \/ is_solvable_pass
    \/ new_game_checked

\* The method runs to its end without a suspension point: a loop pass that
\* can be taken is taken.
SpecGen == InitGen /\ [][NextGen]_vars /\ WF_vars(NextGen)

\* ------------------------------------------------------------------------
\* Several QuasiBoats instances side by side: the operations that read or
\* write self.boats and self.drag_dots, called on any instance in any order.
\* The guards of the handlers on game_won, move_locked and the selection
\* only take calls away and are left out; the instances draw from the one
\* stream of module random and read the same stored grid size.
\* ------------------------------------------------------------------------
\* self.<name> read through owner o: its own attribute, else the class's.
Lookup(at, o, name) ==
    IF at[o][name] # None THEN at[o][name] ELSE at[Class][name]

\* The addresses of the lists some attribute refers to.
Referenced(at) ==
    {at[o][name] : o \in DOMAIN at, name \in {"boats", "drag_dots"}} \ {None}

\* A list nothing refers to is gone: its address holds an empty list again.
Collected(obj) ==
    [obj EXCEPT !.lists = [a \in Addresses |->
                              IF a \in Referenced(obj.attrs) THEN obj.lists[a]
                              ELSE <<>>]]

\* Seeded fault: the list read through the owner is emptied where it is.
Rebound_in_place(obj, o, name) ==
    [obj EXCEPT !.lists[Lookup(obj.attrs, o, name)] = <<>>]

\* self.<name> = []: a new list is created and bound to the owner's own
\* attribute; the list bound before is dropped if nothing else refers to
\* it. The new list is named by the attribute's home address, or by the
\* lowest free one if another attribute refers to the list at home.
Rebound(obj, o, name) ==
    LET others == Referenced([obj.attrs EXCEPT ![o][name] = None])
        free == Addresses \ Referenced(obj.attrs)
        a == IF Home(o, name) \notin others THEN Home(o, name)
             ELSE CHOOSE x \in free : \A y \in free : x <= y
    IN  Collected([attrs |-> [obj.attrs EXCEPT ![o][name] = a],
                   lists |-> [obj.lists EXCEPT ![a] = <<>>]])

\* self.<name>.append(item) for every item of items, in order.
Extended(obj, o, name, items) ==
    [obj EXCEPT !.lists[Lookup(obj.attrs, o, name)] = @ \o items]

\* The attributes and lists as one value, and the assignment of such a value.
Objects == [attrs |-> attrs, lists |-> lists]

SetObjects(obj) == attrs' = obj.attrs /\ lists' = obj.lists

\* The last operation and the instance it was called on.
InstEvent(op, i) == [op |-> op, branch |-> "done", inst |-> i]

\* The boats an instance sees as self.boats.
BoatsOf(i) == lists[Lookup(attrs, i, "boats")]

\* The class statement has run and no instance has run onCreate; the grid
\* size stored by an earlier run is the smallest one.
InitShare ==
    /\ GRID_PIXEL_SIZE = SCREEN_HEIGHT - 10
    /\ grid_size = MIN_GRID_SIZE
    /\ prefs = MIN_GRID_SIZE
    /\ cell_size = calculate_cell_size(MIN_GRID_SIZE)
    /\ boats = <<>>
    /\ exit_row = 0
    /\ current_seed = 0
    /\ rng = 0
    /\ selected_boat = None
    /\ dragging_boat = None
    /\ move_count = 0
    /\ game_won = FALSE
    /\ move_locked = FALSE
    /\ menu_modal = FALSE
    /\ pointer = None
    /\ drags = 0
    /\ gen = [seed |-> None, size |-> MIN_GRID_SIZE, boats |-> <<>>,
              solvable |-> FALSE, generated |-> 0,
              warned |-> FALSE, result |-> "None"]
    /\ ev = InstEvent("class", Class)
    /\ call = NoCall
    /\ attrs = ClassAttrs
    /\ lists = ClassLists

\* new_game() on instance i, from onCreate or the New button: self.boats is
\* bound to a new list in every pass of the for loop and the boats appended
\* to it; self.move_count = 0.
inst_new_game(i) ==
    /\ \E n \in {new_game(None, rng, grid_size, cell_size)} :
           /\ SetObjects(Extended(Rebound([Objects EXCEPT
                                              !.attrs[i].move_count = 0],
                                          i, "boats"),
                                  i, "boats", n.boats))
           /\ rng' = n.rng
    /\ ev' = InstEvent("new_game", i)
    /\ UNCHANGED <<GRID_PIXEL_SIZE, call, grid_size, exit_row, cell_size,
                   boats, selected_boat, dragging_boat, move_count, game_won,
                   current_seed, move_locked, menu_modal, prefs, pointer,
                   gen, drags>>

\* recreate_grid() on instance i: self.boats = [], then new_game().
inst_recreate_grid(i) ==
    /\ \E n \in {new_game(None, rng, grid_size, cell_size)} :
           /\ SetObjects(Extended(Rebound(Rebound([Objects EXCEPT
                                                      !.attrs[i].move_count = 0],
                                                  i, "boats"),
                                          i, "boats"),
                                  i, "boats", n.boats))
           /\ rng' = n.rng
    /\ ev' = InstEvent("recreate_grid", i)
    /\ UNCHANGED <<GRID_PIXEL_SIZE, call, grid_size, exit_row, cell_size,
                   boats, selected_boat, dragging_boat, move_count, game_won,
                   current_seed, move_locked, menu_modal, prefs, pointer,
                   gen, drags>>

\* An accepted step of move_selected_boat on instance i: the boat object b
\* of self.boats gets its new position and self.move_count is raised.
inst_move_selected_boat(i, b, direction) ==
    /\ b \in 1..Len(BoatsOf(i))
    /\ Lookup(attrs, i, "move_count") < MaxMoves
    /\ key_on_axis(BoatsOf(i)[b], direction)
    /\ LET t == key_target(BoatsOf(i)[b], direction)
       IN  /\ can_move_to(BoatsOf(i), b, t[1], t[2], grid_size)
           /\ lists' = [lists EXCEPT
                           ![Lookup(attrs, i, "boats")] =
                               [@ EXCEPT ![b].row = t[1], ![b].col = t[2],
                                         ![b].x = t[2] * cell_size,
                                         ![b].y = t[1] * cell_size]]
    /\ attrs' = [attrs EXCEPT
                    ![i].move_count = Lookup(attrs, i, "move_count") + 1]
    /\ ev' = InstEvent("move_selected_boat", i)
    /\ UNCHANGED <<GRID_PIXEL_SIZE, call, grid_size, exit_row, cell_size,
                   boats, selected_boat, dragging_boat, move_count, game_won,
                   current_seed, move_locked, menu_modal, prefs, rng, pointer,
                   gen, drags>>

\* The dots create_drag_dots makes for boat b of bs: one for each side the
\* boat can take a step to.
dots_for(bs, b, size) ==
    LET bt == bs[b]
        dot(side, row, col, inside) ==
            IF inside /\ can_move_to(bs, b, row, col, size)
            THEN <<[boat |-> b, side |-> side]>> ELSE <<>>
    IN  IF bt.is_horizontal
        THEN dot("left", bt.row, bt.col - 1, bt.col > 0)
                 \o dot("right", bt.row, bt.col + 1, bt.col + bt.length < size)
        ELSE dot("up", bt.row - 1, bt.col, bt.row > 0)
                 \o dot("down", bt.row + 1, bt.col, bt.row + bt.length < size)

\* create_drag_dots(boat) on instance i: clear_drag_dots(), then every dot
\* is appended to self.drag_dots.
inst_create_drag_dots(i, b) ==
    /\ b \in 1..Len(BoatsOf(i))
    /\ SetObjects(Extended(Rebound(Objects, i, "drag_dots"), i, "drag_dots",
                           dots_for(BoatsOf(i), b, grid_size)))
    /\ ev' = InstEvent("create_drag_dots", i)
    /\ UNCHANGED <<GRID_PIXEL_SIZE, call, grid_size, exit_row, cell_size,
                   boats, selected_boat, dragging_boat, move_count, game_won,
                   current_seed, move_locked, menu_modal, prefs, rng, pointer,
                   gen, drags>>

\* clear_drag_dots() on instance i: the dots of self.drag_dots are deleted
\* and self.drag_dots = [].
inst_clear_drag_dots(i) ==
    /\ SetObjects(Rebound(Objects, i, "drag_dots"))
    /\ ev' = InstEvent("clear_drag_dots", i)
    /\ UNCHANGED <<GRID_PIXEL_SIZE, call, grid_size, exit_row, cell_size,
                   boats, selected_boat, dragging_boat, move_count, game_won,
                   current_seed, move_locked, menu_modal, prefs, rng, pointer,
                   gen, drags>>

NextShare ==
    \E i \in Instances :
        \/ inst_new_game(i)
        \/ inst_recreate_grid(i)
        \/ \E b \in 1..Len(BoatsOf(i)) : \E d \in Directions :
               inst_move_selected_boat(i, b, d)
        \/ \E b \in 1..Len(BoatsOf(i)) : inst_create_drag_dots(i, b)
        \/ inst_clear_drag_dots(i)

SpecShare == InitShare /\ [][NextShare]_vars

\* ------------------------------------------------------------------------
\* Properties
\* ------------------------------------------------------------------------
\* No two distinct boats of bs cover a common cell.
PairwiseDisjoint(bs) ==
    \A i \in 1..Len(bs) : \A j \in 1..Len(bs) :
        i # j => get_cells(bs[i]) \cap get_cells(bs[j]) = {}

\* What the layout is made of: order, row, col, length, orientation and
\* player flag of every boat.
Shape(bs) ==
    [i \in 1..Len(bs) |->
        <<bs[i].row, bs[i].col, bs[i].length, bs[i].is_horizontal,
          bs[i].is_player>>]

\* C1: the layout new_game leaves in place, for every seed and every grid
\* size of MIN_GRID_SIZE..MAX_GRID_SIZE, accepted as solvable or kept as the
\* last failed attempt, has pairwise disjoint boats.
C1_LayoutDisjoint ==
    ev.branch = "new_game" =>
        /\ gen.size \in MIN_GRID_SIZE..MAX_GRID_SIZE
        /\ boats = gen.boats
        /\ PairwiseDisjoint(boats)

\* A layout kept although all max_gen_attempts candidates were unsolvable.
C1_Witness ==
    /\ ev.branch = "new_game"
    /\ gen.generated = max_gen_attempts
    /\ ~gen.solvable
    /\ Len(boats) >= 3

\* C2: from any generated layout, after any sequence of keyboard steps and
\* drag events on any boats, no two distinct boats cover a common cell.
C2_AlwaysDisjoint == PairwiseDisjoint(boats)

\* A boat has been moved by a counted drag next to boats it cannot pass.
C2_Witness ==
    /\ move_count >= 1
    /\ ev = Event("on_boat_released", "counted")
    /\ Shape(boats) # Shape(gen.boats)
    /\ \E b \in BoatIds : \E d \in Directions :
           /\ key_on_axis(boats[b], d)
           /\ LET t == key_target(boats[b], d)
              IN  ~_is_pos_free(boats, b, t[1], t[2])

\* C3: a generation with a seed and a grid size, started from whatever state
\* the game and the random stream were in, ends with the boat sequence that
\* the generation with this seed and size yields when started from the state
\* at start-up, also when candidates were rejected and regenerated.
C3_Deterministic ==
    ev.branch = "new_game" =>
        Shape(gen.boats)
            = Shape(new_game(gen.seed, 0, gen.size,
                             calculate_cell_size(gen.size)).boats)

\* A reset of a layout that took more than one candidate, with the stream
\* left where the earlier draws took it.
C3_Witness ==
    /\ ev.op = "on_reset"
    /\ ev.branch = "new_game"
    /\ gen.generated >= 2
    /\ rng # 0

\* The target leaves the moved boat on its own axis.
OnAxis(b, new_row, new_col) ==
    IF b.is_horizontal THEN new_row = b.row ELSE new_col = b.col

\* The boat's cells at (row, col) are all inside the grid.
InGrid(b, row, col, size) ==
    \A cell \in cells_at(b, row, col) :
        cell[1] \in 0..(size - 1) /\ cell[2] \in 0..(size - 1)

\* The positions from one step past a up to and including t.
StepsTo(a, t) == IF t >= a THEN (a + 1)..t ELSE t..(a - 1)

\* At every position on the way to the target, target included, the boat's
\* cells are disjoint from the cells of every other boat.
PathClear(bs, i, new_row, new_col) ==
    LET b == bs[i]
        covered == UNION {get_cells(bs[j]) : j \in 1..Len(bs) \ {i}}
    IN  IF b.is_horizontal
        THEN \A c \in StepsTo(b.col, new_col) :
                 cells_at(b, b.row, c) \cap covered = {}
        ELSE \A r \in StepsTo(b.row, new_row) :
                 cells_at(b, r, b.col) \cap covered = {}

\* C4: for a target on the boat's axis, can_move_to returns true exactly
\* when the target is inside the grid and every position from one step past
\* the current one up to the target is clear of the other boats; a move of
\* zero distance inside the grid is accepted.
C4_PathRule ==
    (ev.op = "can_move_to" /\ OnAxis(boats[ev.boat], ev.new_row, ev.new_col)) =>
        /\ (ev.branch = "True") <=>
               (/\ InGrid(boats[ev.boat], ev.new_row, ev.new_col, grid_size)
                /\ PathClear(boats, ev.boat, ev.new_row, ev.new_col))
        /\ (ev.new_row = boats[ev.boat].row /\ ev.new_col = boats[ev.boat].col)
               => ev.branch = "True"

\* Three horizontal boats on one row; the leftmost is refused a column
\* beyond the middle boat although the cells there are free.
C4_Witness ==
    /\ ev.op = "can_move_to"
    /\ ev.branch = "False"
    /\ \A i \in 1..3 : boats[i].is_horizontal /\ boats[i].row = boats[1].row
    /\ \E mid \in 2..3 :
           /\ boats[1].col < boats[mid].col
           /\ boats[mid].col < boats[5 - mid].col
           /\ ev.new_col > boats[mid].col
    /\ ev.new_row = boats[1].row
    /\ InGrid(boats[1], ev.new_row, ev.new_col, grid_size)
    /\ _is_pos_free(boats, 1, ev.new_row, ev.new_col)

\* C5: can_move_to rejects every target off the boat's axis (another row for
\* a horizontal boat, another column for a vertical one), whatever the other
\* boats are.
C5_AxisLock ==
    (ev.op = "can_move_to" /\ ~OnAxis(boats[ev.boat], ev.new_row, ev.new_col))
        => ev.branch = "False"

\* The cell a key step in a direction asks for, whatever the boat's axis.
StepCell(b, direction) ==
    IF direction = "up" THEN <<b.row - 1, b.col>>
    ELSE IF direction = "down" THEN <<b.row + 1, b.col>>
    ELSE IF direction = "left" THEN <<b.row, b.col - 1>>
    ELSE <<b.row, b.col + 1>>

\* The key step asked of boat b is across its axis, leaves the grid, or
\* meets another boat.
BadRequest(b, direction) ==
    LET t == StepCell(boats[b], direction)
    IN  \/ (direction \in {"up", "down"}) = boats[b].is_horizontal
        \/ ~InGrid(boats[b], t[1], t[2], grid_size)
        \/ \E j \in BoatIds \ {b} :
               cells_at(boats[b], t[1], t[2]) \cap get_cells(boats[j]) # {}

\* C6: a keyboard move request that is out of bounds, blocked by another
\* boat or across the selected boat's axis leaves every boat's row and col,
\* move_count and game_won unchanged.
C6_RejectedUnchanged ==
    [][\A d \in Directions :
           (/\ move_selected_boat(d)
            /\ selected_boat # None
            /\ BadRequest(selected_boat, d))
               => /\ Shape(boats') = Shape(boats)
                  /\ move_count' = move_count
                  /\ game_won' = game_won]_vars

\* A key step has been refused to a boat that another boat blocks.
C6_Witness ==
    /\ ev = Event("move_selected_boat", "refused")
    /\ selected_boat # None
    /\ \E d \in Directions :
           /\ (d \in {"left", "right"}) = boats[selected_boat].is_horizontal
           /\ LET t == StepCell(boats[selected_boat], d)
              IN  /\ InGrid(boats[selected_boat], t[1], t[2], grid_size)
                  /\ BadRequest(selected_boat, d)

\* After a counted move of boat b: the game is won exactly when b is the
\* player on the exit row with its last cell on or past the last column.
WonExactly(b) ==
    LET m == boats'[b]
    IN  /\ game_won' = (m.is_player /\ m.row = exit_row'
                        /\ m.col + m.length >= grid_size')
        /\ (m.is_player /\ m.row = exit_row' /\ grid_size' = 6 /\ m.length = 2)
               => /\ m.col = 3 => ~game_won'
                  /\ m.col = 4 => game_won'
        /\ ~m.is_player => ~game_won'

\* C7: after an accepted move (a key step, or a completed drag that is
\* counted) the game is won exactly when the moved boat is the player, its
\* row is exit_row and col + length >= grid_size; on a grid of 6 a player of
\* length 2 ending at col 3 has not won and ending at col 4 has; a move of
\* another boat never wins.
C7_WinExact ==
    [][/\ \A d \in Directions :
              (move_selected_boat(d) /\ move_count' = move_count + 1)
                  => WonExactly(selected_boat)
       /\ \A b \in BoatIds :
              (on_boat_released(b) /\ move_count' = move_count + 1)
                  => WonExactly(b)]_vars

\* The player of length 2 has moved to col 4 of a grid of 6 and has won.
C7_Witness ==
    /\ game_won
    /\ move_count >= 1
    /\ grid_size = 6
    /\ boats[1].is_player
    /\ boats[1].length = 2
    /\ boats[1].col = 4

\* The player boat is where the win test is met.
PlayerAtExit ==
    boats[1].row = exit_row /\ boats[1].col + boats[1].length >= grid_size

\* C8: whenever an accepted key step, or an accepted drag step applied by
\* on_boat_pressing, has moved the player boat to where row = exit_row and
\* col + length >= grid_size, game_won is true in the state the step leaves.
C8_WinAfterEveryStep ==
    (/\ boats[1].is_player
     /\ PlayerAtExit
     /\ \/ ev = Event("move_selected_boat", "moved") /\ selected_boat = 1
        \/ /\ ev = Event("on_boat_pressing", "moved")
           /\ pointer = 1
           /\ boats[1].col # boats[1].drag_start_col)
        => game_won

\* C9: in every state after new_game and after any sequence of moves there
\* is exactly one player boat; it is the first of boats, horizontal, of
\* length 2, and on the exit row.
C9_OnePlayer ==
    /\ Cardinality({i \in BoatIds : boats[i].is_player}) = 1
    /\ boats[1].is_player
    /\ boats[1].is_horizontal
    /\ boats[1].length = 2
    /\ boats[1].row = exit_row

\* The player boat has been moved away from where it was generated.
C9_Witness ==
    /\ move_count >= 1
    /\ boats[1].is_player
    /\ boats[1].col # gen.boats[1].col

\* C10: between events, also after change_size has changed grid_size with
\* the menu open, every cell of every boat is inside the grid.
C10_InBounds ==
    \A i \in BoatIds : InGrid(boats[i], boats[i].row, boats[i].col, grid_size)

\* C11: between events, also after change_size has changed grid_size and
\* before the menu is closed, exit_row is grid_size // 2.
C11_ExitRowHalf == exit_row = grid_size \div 2

\* For every seed and grid size, the candidates a call could come to draw,
\* each with the verdict of is_solvable on it.
Tried ==
    {Only({[seed |-> seed, size |-> size, k |-> k,
            shape |-> Shape(c.boats), ok |-> is_solvable(c.boats, size)] :
              c \in {NthCandidate(k, rng_seed(seed), size)}}) :
        seed \in 1..MaxSeed, size \in MIN_GRID_SIZE..MAX_GRID_SIZE,
        k \in 1..max_gen_attempts}

TriedAt(seed, size, k) ==
    CHOOSE t \in Tried : t.seed = seed /\ t.size = size /\ t.k = k

\* C12: a call of new_game draws candidates one after the other and keeps
\* the first that is_solvable accepts: every candidate before the kept one
\* was judged unsolvable, a candidate judged unsolvable is kept only as the
\* last of max_gen_attempts, and no call draws more than max_gen_attempts.
C12_FirstSolvableKept ==
    ev.branch = "new_game" =>
        /\ gen.generated \in 1..max_gen_attempts
        /\ Shape(gen.boats) = TriedAt(gen.seed, gen.size, gen.generated).shape
        /\ gen.solvable = TriedAt(gen.seed, gen.size, gen.generated).ok
        /\ \A k \in 1..(gen.generated - 1) : ~TriedAt(gen.seed, gen.size, k).ok
        /\ gen.generated < max_gen_attempts => gen.solvable

\* A call that discarded at least one unsolvable candidate and then kept a
\* solvable one before the attempts ran out.
C12_Witness ==
    /\ ev.branch = "new_game"
    /\ gen.generated \in 2..(max_gen_attempts - 1)
    /\ gen.solvable
    /\ Shape(gen.boats) # TriedAt(gen.seed, gen.size, 1).shape

\* C13: when all max_gen_attempts candidates of a call were judged
\* unsolvable, the call ends normally with the last candidate in place as
\* the game, and the value it hands back to its caller says solvable = false.
C13_DegradedReported ==
    (ev.branch = "new_game" /\ gen.generated = max_gen_attempts /\ ~gen.solvable)
        => /\ boats = gen.boats
           /\ Shape(boats) = TriedAt(gen.seed, gen.size, max_gen_attempts).shape
           /\ gen.result = "False"

\* C14: a size request of -1 or +1 leaves grid_size at the requested size
\* clamped into MIN_GRID_SIZE..MAX_GRID_SIZE, so a request past either end
\* leaves it at that end, and after a request that changed grid_size the
\* stored preference equals grid_size.
C14_SizeClamped ==
    [][\A delta \in {0 - 1, 1} :
           change_size(delta)
               => /\ grid_size \in MIN_GRID_SIZE..MAX_GRID_SIZE
                  /\ grid_size' = Max(MIN_GRID_SIZE,
                                      Min(MAX_GRID_SIZE, grid_size + delta))
                  /\ grid_size' \in MIN_GRID_SIZE..MAX_GRID_SIZE
                  /\ grid_size' # grid_size => prefs' = grid_size']_vars

\* A request past the largest size has left grid_size and the stored
\* preference at MAX_GRID_SIZE.
C14_Witness ==
    /\ ev = Event("change_size", "kept")
    /\ grid_size = MAX_GRID_SIZE
    /\ prefs = MAX_GRID_SIZE
    /\ menu_modal

\* C15: when the menu is closed while grid_size differs from the size the
\* layout in place was generated for, close_menu runs recreate_grid and
\* new_game, and the boats it leaves were generated for the current
\* grid_size.
C15_SizeChangeReplaces ==
    [][(close_menu /\ grid_size # gen.size)
           => /\ ev'.op = "recreate_grid"
              /\ ev'.branch = "new_game"
              /\ gen'.size = grid_size'
              /\ boats' = gen'.boats]_vars

\* C16: a reset of a game whose grid size is the one it was generated for,
\* after any moves and also after a win, leaves exactly the boats that the
\* generation of this game first produced, with the same seed, move_count 0,
\* game_won false and neither a selected nor a dragged boat.
C16_ResetRestores ==
    [][(on_reset /\ gen.size = grid_size)
           => /\ boats' = gen.boats
              /\ current_seed' = current_seed
              /\ move_count' = 0
              /\ ~game_won'
              /\ selected_boat' = None
              /\ dragging_boat' = None]_vars

\* A reset of a game that had been won by a counted move.
C16_Witness ==
    /\ ev.op = "on_reset"
    /\ ev.branch = "new_game"
    /\ ev.moves >= 1
    /\ ev.won
    /\ boats = gen.boats
    /\ move_count = 0
    /\ ~game_won

\* The cells of boat b when the coordinate along its axis is v.
PlacedAt(b, v) ==
    IF b.is_horizontal THEN cells_at(b, b.row, v) ELSE cells_at(b, v, b.col)

\* From the positions from to the positions to it is one legal move: one
\* boat goes one cell along its axis, stays inside the grid and meets none
\* of the other boats where they are.
LegalMove(bs, from, to, size) ==
    \E i \in 1..Len(bs) :
        /\ to[i] - from[i] \in {0 - 1, 1}
        /\ \A j \in 1..Len(bs) \ {i} : to[j] = from[j]
        /\ \A cell \in PlacedAt(bs[i], to[i]) :
               cell[1] \in 0..(size - 1) /\ cell[2] \in 0..(size - 1)
        /\ \A j \in 1..Len(bs) \ {i} :
               PlacedAt(bs[i], to[i]) \cap PlacedAt(bs[j], from[j]) = {}

\* The chain of recorded links from a visited state back to the state that
\* has none, walked in blocks of at most k links; path is never empty.
RECURSIVE back_block(_, _, _)
back_block(path, k, links) ==
    IF k = 0 \/ ~(\E l \in links : l[1] = path[1]) THEN path
    ELSE back_block(<<(CHOOSE l \in links : l[1] = path[1])[2]>> \o path,
                    k - 1, links)

RECURSIVE PathTo(_, _)
PathTo(path, links) ==
    IF ~(\E l \in links : l[1] = path[1]) THEN path
    ELSE PathTo(back_block(path, 24, links), links)

\* The positions of the layout is_solvable was called on.
StartPositions ==
    [i \in 1..Len(boats) |->
        IF boats[i].is_horizontal THEN boats[i].col ELSE boats[i].row]

\* The state whose goal test made is_solvable return True.
PoppedLast == call.st.queue[call.st.head]

\* C17: whenever is_solvable has returned True, there is a finite sequence
\* of legal single-step moves (one boat, one cell along its axis, inside the
\* grid, meeting no other boat) from the layout it was called on to a state
\* in which the player has col + length >= grid_size.
C17_Sound ==
    (ev = Event("is_solvable", "True")) =>
        LET path == PathTo(<<PoppedLast>>, call.links)
        IN  /\ path[1] = StartPositions
            /\ \A n \in 1..(Len(path) - 1) :
                   LegalMove(boats, path[n], path[n + 1], grid_size)
            /\ path[Len(path)][1] + boats[1].length >= grid_size
            /\ boats[1].is_player

\* is_solvable has returned True for a generated layout in which the player
\* is blocked at the start: a yacht lies in the cell in front of it.
C17_Witness ==
    /\ ev = Event("is_solvable", "True")
    /\ Len(boats) >= 3
    /\ ~_is_pos_free(boats, 1, boats[1].row, boats[1].col + 1)
    /\ boats[1].col + boats[1].length < grid_size

\* C18: for a layout of the player boat alone, on every grid size from 2 up
\* and from every column that leaves the boat inside the grid, is_solvable
\* returns True.
C18_LoneSolvable ==
    (ev.op = "is_solvable" /\ call.pc = "returned" /\ Len(boats) = 1)
        => ev.branch = "True"

\* C18 as amended: for a layout of the player boat alone, on every grid size
\* from 2 to max_states and from every column that leaves the boat inside
\* the grid, is_solvable returns True.
C18_LoneSolvableToCap ==
    (/\ ev.op = "is_solvable"
     /\ call.pc = "returned"
     /\ Len(boats) = 1
     /\ grid_size <= max_states)
        => ev.branch = "True"

\* The player alone in column 0 of a grid of max_states cells a side has
\* been found solvable: the longest way a lone player can have.
C18_Witness ==
    /\ ev = Event("is_solvable", "True")
    /\ Len(boats) = 1
    /\ boats[1].col = 0
    /\ grid_size = max_states
    /\ Cardinality(call.st.visited) = max_states - 1

\* The goal test of is_solvable on a search state.
GoalState(s) == s[1] >= grid_size - boats[1].length

\* C19: is_solvable returns True only for a goal state it has popped while
\* fewer than max_states states were visited; once the visited count has
\* reached max_states with no goal state popped it returns False, also when
\* a goal state is waiting in the queue.
C19_CapMeansFalse ==
    (ev.op = "is_solvable" /\ call.pc = "returned") =>
        /\ ev.branch = "True" =>
               /\ GoalState(PoppedLast)
               /\ Cardinality(call.st.visited) < max_states
        /\ Cardinality(call.st.visited) >= max_states => ev.branch = "False"
        /\ (\A n \in 1..call.st.head : ~GoalState(call.st.queue[n]))
               => ev.branch = "False"

\* is_solvable has returned False at the cap while a goal state was in the
\* queue, enqueued and not yet popped.
C19_Witness ==
    /\ ev = Event("is_solvable", "False")
    /\ Cardinality(call.st.visited) >= max_states
    /\ \E n \in (call.st.head + 1)..Len(call.st.queue) :
           GoalState(call.st.queue[n])

\* The call of new_game has come to its end within its budgets.
Finished ==
    /\ call.pc = "done"
    /\ call.generated <= max_gen_attempts
    /\ call.most_attempts <= max_attempts
    /\ call.st.head <= max_states

\* C20: every call of new_game, for every seed and every grid size of
\* 4..10, comes to its end, having made at most max_attempts placement
\* attempts for a candidate, generated at most max_gen_attempts candidates,
\* and left the loop of every is_solvable call.
C20_Terminates == <>Finished

\* A call that ended after five candidates, the search on the last of them
\* stopped at the cap.
C20_Witness ==
    /\ Finished
    /\ call.generated = max_gen_attempts
    /\ call.most_attempts > num_obstacles(grid_size)
    /\ Cardinality(call.st.visited) >= max_states
    /\ ~call.st.found

\* The boats a call run pass by pass ends with are those of new_game.
GenAgrees ==
    call.pc = "done" =>
        /\ boats = new_game(current_seed, 0, grid_size, cell_size).boats
        /\ gen.solvable = new_game(current_seed, 0, grid_size, cell_size).solvable
        /\ gen.generated = new_game(current_seed, 0, grid_size, cell_size).generated

\* The search states one legal move away from the state s.
Moves(s) ==
    {t \in {[s EXCEPT ![i] = s[i] + d] : i \in 1..Len(boats), d \in {0 - 1, 1}} :
        LegalMove(boats, s, t, grid_size)}

\* C21: when is_solvable returns False with fewer than max_states states
\* visited, no sequence of legal single-step moves leads from the layout to
\* a state with the player's col >= grid_size - length: the visited states
\* include the layout, none of them is such a state, and every legal move
\* from a visited state ends in a visited state.
C21_CompleteBelowCap ==
    (/\ ev = Event("is_solvable", "False")
     /\ Cardinality(call.st.visited) < max_states)
        => /\ StartPositions \in call.st.visited
           /\ \A s \in call.st.visited :
                  /\ ~GoalState(s)
                  /\ Moves(s) \subseteq call.st.visited

\* is_solvable has returned False with its queue emptied below the cap for a
\* generated layout in which boats could be moved.
C21_Witness ==
    /\ ev = Event("is_solvable", "False")
    /\ Cardinality(call.st.visited) \in 2..(max_states - 1)
    /\ call.st.head = Len(call.st.queue)
    /\ Len(boats) >= 3

\* The boats with the coordinate along each one's axis taken from the
\* search state s.
Located(bs, s) ==
    [i \in 1..Len(bs) |->
        IF bs[i].is_horizontal THEN [bs[i] EXCEPT !.col = s[i]]
        ELSE [bs[i] EXCEPT !.row = s[i]]]

\* The search states the last pass dealt with: the popped one and those it
\* put into visited.
Examined ==
    {PoppedLast} \cup {l[1] : l \in {m \in call.links : m[2] = PoppedLast}}

\* The one-cell move of boat i by step d in the search state s: the target
\* cell of the boat, and whether a boat of the given kind lies on it.
StepRow(bs, s, i, d) == IF bs[i].is_horizontal THEN bs[i].row ELSE s[i] + d

StepCol(bs, s, i, d) == IF bs[i].is_horizontal THEN s[i] + d ELSE bs[i].col

MeetsBoat(bs, s, i, d, parallel) ==
    \E j \in 1..Len(bs) \ {i} :
        /\ (bs[j].is_horizontal = bs[i].is_horizontal) = parallel
        /\ cells_at(bs[i], StepRow(bs, s, i, d), StepCol(bs, s, i, d))
               \cap get_cells(Located(bs, s)[j]) # {}

\* C22: for every search state, boat and step of -1 or +1,
\* _check_collision_static returns false exactly when can_move_to accepts
\* the one-cell move with all boats placed as in the state, which is exactly
\* when the moved boat is inside the grid and its cells are disjoint from
\* those of every other boat, of the same or of the other orientation.
C22_CollisionAgrees ==
    (ev.op = "is_solvable" /\ call.st.head >= 1) =>
        \A s \in Examined : \A i \in 1..Len(boats) : \A d \in {0 - 1, 1} :
            LET row == StepRow(boats, s, i, d)
                col == StepCol(boats, s, i, d)
                free == ~_check_collision_static(i, s[i] + d, s, boats, grid_size)
            IN  /\ free = can_move_to(Located(boats, s), i, row, col, grid_size)
                /\ free = (/\ InGrid(boats[i], row, col, grid_size)
                           /\ ~MeetsBoat(boats, s, i, d, TRUE)
                           /\ ~MeetsBoat(boats, s, i, d, FALSE))

\* A popped state in which one step is refused for a boat on the same line
\* alone, another for a crossing boat alone and a third for the grid's edge.
C22_Witness ==
    /\ ev = Event("is_solvable", "pass")
    /\ call.st.head >= 2
    /\ \E i \in 1..Len(boats) : \E d \in {0 - 1, 1} :
           /\ _check_collision_static(i, PoppedLast[i] + d, PoppedLast, boats,
                                      grid_size)
           /\ MeetsBoat(boats, PoppedLast, i, d, TRUE)
           /\ ~MeetsBoat(boats, PoppedLast, i, d, FALSE)
    /\ \E i \in 1..Len(boats) : \E d \in {0 - 1, 1} :
           /\ _check_collision_static(i, PoppedLast[i] + d, PoppedLast, boats,
                                      grid_size)
           /\ MeetsBoat(boats, PoppedLast, i, d, FALSE)
           /\ ~MeetsBoat(boats, PoppedLast, i, d, TRUE)
    /\ \E i \in 1..Len(boats) : \E d \in {0 - 1, 1} :
           /\ _check_collision_static(i, PoppedLast[i] + d, PoppedLast, boats,
                                      grid_size)
           /\ ~InGrid(boats[i], StepRow(boats, PoppedLast, i, d),
                      StepCol(boats, PoppedLast, i, d), grid_size)

\* Two boats lie on one line: horizontal in one row or vertical in one column.
SameLine(a, b) ==
    /\ a.is_horizontal = b.is_horizontal
    /\ IF a.is_horizontal THEN a.row = b.row ELSE a.col = b.col

\* Boat a comes before boat b along the line they share.
Before(a, b) == IF a.is_horizontal THEN a.col < b.col ELSE a.row < b.row

\* Any two boats that lie on one line are in the order they were generated in.
OrderKept ==
    \A i \in BoatIds : \A j \in BoatIds :
        (i # j /\ SameLine(boats[i], boats[j]))
            => /\ SameLine(gen.boats[i], gen.boats[j])
               /\ Before(boats[i], boats[j]) = Before(gen.boats[i], gen.boats[j])

\* A step of the game in play that leaves boat i at another position took it
\* along its axis over cells that no other boat covers.
SlidFreely(i) ==
    (boats'[i].row # boats[i].row \/ boats'[i].col # boats[i].col)
        => /\ OnAxis(boats[i], boats'[i].row, boats'[i].col)
           /\ PathClear(boats, i, boats'[i].row, boats'[i].col)
           /\ \A j \in BoatIds \ {i} :
                  boats'[j].row = boats[j].row /\ boats'[j].col = boats[j].col

\* C23: after any sequence of key steps and drag events, any two boats on
\* one line are in the order of the generated layout, and every step that
\* moved a boat took it along its axis over cells free of every other boat,
\* so across no cell of a crossing boat.
C23_NoPassing ==
    [][/\ OrderKept'
       /\ ev'.branch # "new_game" => \A i \in BoatIds : SlidFreely(i)]_vars

\* A dragged boat that has left its starting cell has been refused a step
\* although a cell beyond the boat that blocks it is inside the grid and free.
C23_Witness ==
    /\ ev = Event("on_boat_pressing", "refused")
    /\ pointer # None
    /\ LET b == pointer
       IN  /\ (boats[b].row # boats[b].drag_start_row
               \/ boats[b].col # boats[b].drag_start_col)
           /\ \E raw \in 0..(grid_size - 1) :
                  LET t == pressing_target(boats[b], raw, raw, grid_size)
                  IN  /\ InGrid(boats[b], t[1], t[2], grid_size)
                      /\ _is_pos_free(boats, b, t[1], t[2])
                      /\ ~can_move_to(boats, b, t[1], t[2], grid_size)

\* The obstacle boats of the candidate under construction: all but the player.
Obstacles == {i \in BoatIds : ~boats[i].is_player}

\* C24: for each candidate, the placement loop is left only when the number
\* of obstacle (non-player) boats equals the target num_obstacles or
\* max_attempts attempts have been made, and the number of obstacle boats
\* never exceeds the target.
C24_ObstacleTarget ==
    call.pc \in {"place", "solve"} =>
        /\ Cardinality(Obstacles) <= num_obstacles(grid_size)
        /\ ev = Event("new_game", "is_solvable") =>
               \/ Cardinality(Obstacles) = num_obstacles(grid_size)
               \/ call.p.attempts = max_attempts

\* Every boat has the length, the orientation and the role it was generated
\* with, and the coordinate across its axis it was generated at.
FixedParts ==
    /\ Len(boats) = Len(gen.boats)
    /\ \A i \in BoatIds :
           /\ boats[i].length = gen.boats[i].length
           /\ boats[i].is_horizontal = gen.boats[i].is_horizontal
           /\ boats[i].is_player = gen.boats[i].is_player
           /\ IF boats[i].is_horizontal THEN boats[i].row = gen.boats[i].row
              ELSE boats[i].col = gen.boats[i].col

\* The coordinate of a boat along its axis.
Along(b) == IF b.is_horizontal THEN b.col ELSE b.row

\* C25: after any sequence of key steps and drag events every boat's length
\* and orientation, every horizontal boat's row and every vertical boat's col
\* are as generated; an accepted key step changes the selected boat's
\* coordinate along its axis by exactly 1 and leaves every other boat as it
\* was.
C25_AxisOnly ==
    [][/\ FixedParts'
       /\ \A d \in Directions :
              (move_selected_boat(d) /\ move_count' = move_count + 1)
                  => /\ Along(boats'[selected_boat]) - Along(boats[selected_boat])
                            \in {0 - 1, 1}
                     /\ \A j \in BoatIds \ {selected_boat} :
                            boats'[j] = boats[j]]_vars

\* A vertical boat has been taken one cell along its column by a key step.
C25_Witness ==
    /\ ev = Event("move_selected_boat", "moved")
    /\ selected_boat # None
    /\ ~boats[selected_boat].is_horizontal
    /\ boats[selected_boat].row - gen.boats[selected_boat].row \in {0 - 1, 1}
    /\ boats[selected_boat].col = gen.boats[selected_boat].col

\* C26: during any call of is_solvable the number of distinct states
\* recorded as visited never exceeds max_states.
C26_HardCap ==
    ev.op = "is_solvable" => Cardinality(call.st.visited) <= max_states

\* What an owner sees as its boats and its drag dots.
Observed(o) ==
    [boats |-> lists[Lookup(attrs, o, "boats")],
     drag_dots |-> lists[Lookup(attrs, o, "drag_dots")]]

\* C27: no operation of an instance (new_game, recreate_grid, a move,
\* create_drag_dots, clear_drag_dots) changes the boats or the drag dots
\* another instance sees, nor the lists the class attributes refer to, nor
\* which lists these are.
C27_NoSharing ==
    [][\A i \in Instances :
           ev'.inst = i
               => /\ attrs'[Class] = attrs[Class]
                  /\ Observed(Class)' = Observed(Class)
                  /\ \A j \in Instances \ {i} :
                         /\ attrs'[j] = attrs[j]
                         /\ Observed(j)' = Observed(j)]_vars

\* Two instances with a game each, one with a boat moved and the other with
\* drag dots shown, and the lists of the class still empty.
C27_Witness ==
    /\ ev.inst \in Instances
    /\ \A i \in Instances : Len(Observed(i).boats) >= 2
    /\ \E i \in Instances : \E j \in Instances \ {i} :
           /\ Lookup(attrs, i, "move_count") >= 1
           /\ Lookup(attrs, j, "move_count") = 0
           /\ Len(Observed(j).drag_dots) >= 1
           /\ Observed(i).drag_dots = <<>>
           /\ Observed(i).boats # Observed(j).boats
    /\ Observed(Class) = [boats |-> <<>>, drag_dots |-> <<>>]

C29_FreshNotAtExit ==
    ev.branch = "new_game" => boats[1].col + boats[1].length < grid_size

\* C29 as amended: immediately after new_game, for every seed and every grid
\* size of 4..10, game_won is false, move_count is 0 and the player boat lies
\* inside the grid on the exit row, at a col from 0 to grid_size - 2: its
\* col + length is at most grid_size and may equal it.
C29_FreshNotWon ==
    ev.branch = "new_game" =>
        /\ ~game_won
        /\ move_count = 0
        /\ boats[1].is_player
        /\ boats[1].row = exit_row
        /\ boats[1].col \in 0..(grid_size - 2)
        /\ boats[1].col + boats[1].length <= grid_size

\* A new game whose player boat starts with its last cell in the last
\* column, game_won being false.
C29_Witness ==
    /\ ev.branch = "new_game"
    /\ boats[1].is_player
    /\ boats[1].col + boats[1].length = grid_size
    /\ ~game_won
    /\ move_count = 0
    /\ Len(boats) >= 3

\* The boat the pointer lets go of lies, after the release, in another cell
\* than the one it was pressed in.
ReleasedElsewhere(b) ==
    \/ boats'[b].row # boats[b].drag_start_row
    \/ boats'[b].col # boats[b].drag_start_col

\* What an event adds to move_count.
Added == move_count' - move_count

\* C30: move_count counts moves exactly: it is 0 after new_game, an accepted
\* keyboard step adds exactly 1 and a rejected one adds 0, the pressing
\* steps of a drag add 0, and the release that completes a drag adds exactly
\* 1 if the boat then lies in another cell than at the press and 0 if it
\* lies in the same cell.
C30_CountsExactly ==
    [][/\ ev'.branch = "new_game" => move_count' = 0
       /\ ev'.op = "move_selected_boat" =>
              Added = (IF Shape(boats') # Shape(boats) THEN 1 ELSE 0)
       /\ ev'.op \in {"on_boat_pressed", "on_boat_pressing"} => Added = 0
       /\ ev'.op = "on_boat_released" =>
              \A b \in BoatIds :
                  pointer = b =>
                      IF dragging_boat = b
                      THEN Added = (IF ReleasedElsewhere(b) THEN 1 ELSE 0)
                      ELSE Added = 0]_vars

====
